---- MODULE Spec2Model ----
(***************************************************************************)
(* Model of MCJobSubmission/mcJobSubmission.py: the justIN workflow        *)
(* submitter.  main() reads a configuration document, issues               *)
(* create-workflow, one create-stage per declared stage, submit-workflow   *)
(* and show-stages through run_cmd, and stops at the first failure.        *)
(*                                                                         *)
(* Python values are records [kind, s, keys, vals]:                        *)
(*   kind  "none" | "str" | "int" | "bool" | "list" | "dict"               *)
(*   s     str(value) of a scalar                                          *)
(*   keys  the keys of a dict, in insertion order                          *)
(*   vals  the items of a list / the values of a dict (strings)            *)
(* A mapping read from the document (workflow, defaults, a stage) is a     *)
(* function from field names to such values.  A formatted message          *)
(* (f-string) is the sequence of its literal and interpolated parts.       *)
(***************************************************************************)
EXTENDS Integers, Sequences, FiniteSets, TLC

\* ------------------------------------------------------------------ bounds

\* Longest stage list of a configuration document.
MaxStages == 2

\* The largest retries argument of fetch_job considered.
MaxRetries == 3

\* ------------------------------------------------------------ Python values

NoneV == [kind |-> "none", s |-> "None", keys |-> <<>>, vals |-> <<>>]

StrV(x) == [kind |-> "str", s |-> x, keys |-> <<>>, vals |-> <<>>]

IntV(n) == [kind |-> "int", s |-> ToString(n), keys |-> <<>>, vals |-> <<>>]

BoolV(b) ==
    [kind |-> "bool", s |-> IF b THEN "True" ELSE "False", keys |-> <<>>, vals |-> <<>>]

ListV(items) == [kind |-> "list", s |-> "", keys |-> <<>>, vals |-> items]

DictV(ks, vs) == [kind |-> "dict", s |-> "", keys |-> ks, vals |-> vs]

EmptyDictV == DictV(<<>>, <<>>)

\* The empty mapping {}.
EmptyMap == [k \in {} |-> NoneV]

Range(seq) == {seq[i] : i \in 1..Len(seq)}

\* Position of the first occurrence of x in seq (x occurs in seq).
IndexOf(seq, x) == CHOOSE i \in 1..Len(seq) : seq[i] = x /\ \A j \in 1..(i - 1) : seq[j] # x

RECURSIVE Join(_, _)
\* sep.join(seq)
Join(seq, sep) ==
    IF seq = <<>> THEN ""
    ELSE IF Len(seq) = 1 THEN seq[1]
    ELSE seq[1] \o sep \o Join(Tail(seq), sep)

\* bool(v): Python truth value.
Truthy(v) ==
    CASE v.kind = "none" -> FALSE
      [] v.kind = "str"  -> v.s # ""
      [] v.kind = "int"  -> v.s # "0"
      [] v.kind = "bool" -> v.s = "True"
      [] v.kind = "list" -> v.vals # <<>>
      [] v.kind = "dict" -> v.keys # <<>>

\* str(v), as an f-string or str() renders it.
PyStr(v) ==
    CASE v.kind \in {"none", "str", "int", "bool"} -> v.s
      [] v.kind = "list" ->
            "[" \o Join([i \in 1..Len(v.vals) |-> "'" \o v.vals[i] \o "'"], ", ") \o "]"
      [] v.kind = "dict" ->
            "{" \o Join([i \in 1..Len(v.keys) |->
                            "'" \o v.keys[i] \o "': '" \o v.vals[i] \o "'"], ", ") \o "}"

as_str(v) == IF v.kind = "none" THEN "" ELSE PyStr(v)

\* d.get(k, dflt)
Get(d, k, dflt) == IF k \in DOMAIN d THEN d[k] ELSE dflt

\* d.get(k): None when the key is absent.
GetN(d, k) == Get(d, k, NoneV)

\* An update that keeps the value d1 has for a key of both.
Update_KeepFirst(d1, d2) ==
    [k \in (DOMAIN d1) \cup (DOMAIN d2) |-> IF k \in DOMAIN d1 THEN d1[k] ELSE d2[k]]

\* The mapping after d1.update(d2).
Update(d1, d2) ==
    [k \in (DOMAIN d1) \cup (DOMAIN d2) |-> IF k \in DOMAIN d2 THEN d2[k] ELSE d1[k]]

\* An env update in which env_d wins on a shared key.
DictUpdate_KeepFirst(env_d, env_s) ==
    LET ks == env_d.keys \o SelectSeq(env_s.keys, LAMBDA k : k \notin Range(env_d.keys))
    IN  DictV(ks,
              [i \in 1..Len(ks) |->
                  IF ks[i] \in Range(env_d.keys)
                  THEN env_d.vals[IndexOf(env_d.keys, ks[i])]
                  ELSE env_s.vals[IndexOf(env_s.keys, ks[i])]])

\* The env dict after env_d.update(env_s): the keys of env_d keep their place,
\* the new keys of env_s follow in their order, env_s wins on a shared key.
DictUpdate(env_d, env_s) ==
    LET ks == env_d.keys \o SelectSeq(env_s.keys, LAMBDA k : k \notin Range(env_d.keys))
    IN  DictV(ks,
              [i \in 1..Len(ks) |->
                  IF ks[i] \in Range(env_s.keys)
                  THEN env_s.vals[IndexOf(env_s.keys, ks[i])]
                  ELSE env_d.vals[IndexOf(env_d.keys, ks[i])]])

\* ------------------------------------------------------------ merge_defaults

\* v or {}
OrEmptyDict(v) == IF Truthy(v) THEN v ELSE EmptyDictV

\* dict(x) raises unless x is a mapping (or an empty iterable).
DictRaises(v) == v.kind # "dict" /\ ~(v.kind = "list" /\ v.vals = <<>>)

\* merge_defaults raises when dict() is applied to an env that is no mapping.
merge_raises(stage, defaults) ==
    \/ DictRaises(OrEmptyDict(Get(defaults, "env", EmptyDictV)))
    \/ DictRaises(OrEmptyDict(Get(stage, "env", EmptyDictV)))

\* merge_defaults without its env lines: env is overridden like any field.
merge_defaults_PlainUpdate(stage, defaults) == Update(defaults, stage)

merge_defaults(stage, defaults) ==
    LET merged == Update(defaults, stage)
        env_d  == OrEmptyDict(Get(defaults, "env", EmptyDictV))
        env_s  == OrEmptyDict(Get(stage, "env", EmptyDictV))
    IN  [k \in (DOMAIN merged) \cup {"env"} |->
            IF k = "env" THEN DictUpdate(env_d, env_s) ELSE merged[k]]

\* merge_defaults with env_d bound to defaults["env"] itself, not to a copy:
\* env_d.update(env_s) then writes into the caller's defaults.
MergeDefaultsEffect_SharedEnv(stage, defaults) ==
    [merged   |-> merge_defaults(stage, defaults),
     stage    |-> stage,
     defaults |-> IF "env" \in DOMAIN defaults /\ Truthy(defaults["env"])
                  THEN [defaults EXCEPT !["env"] = merge_defaults(stage, defaults)["env"]]
                  ELSE defaults]

\* A call of merge_defaults that returns: the record returned, and the two
\* arguments as the call leaves them.  dict(defaults), dict(defaults.get("env"))
\* and dict(stage.get("env")) are new objects and every update is made on
\* them, so the arguments are left as they were.
MergeDefaultsEffect(stage, defaults) ==
    [merged   |-> merge_defaults(stage, defaults),
     stage    |-> stage,
     defaults |-> defaults]

\* ---------------------------------------------------------- build_justin_cmd

\* The strings of the model that hold a character outside [A-Za-z0-9_@%+=:,./-].
UnsafeStrings == {"mc prod", "a b", "*_gen.root", "*.root", " ", "(x==1)", "gen->reco 2 hit"}

Prelude ==
    "source /cvmfs/dune.opensciencegrid.org/products/dune/setup_dune.sh >/dev/null 2>&1; "
        \o "setup justin >/dev/null 2>&1; "

\* shlex.quote(x) with q as the quote mark, on strings without a single quote.
quote_with(x, q) ==
    IF x = "" THEN q \o q
    ELSE IF x \in UnsafeStrings THEN q \o x \o q
    ELSE x

shlex_quote(x) == quote_with(x, "'")

\* " ".join(shlex.quote(x) for x in argv)
QuoteJoin(argv) == Join([i \in 1..Len(argv) |-> shlex_quote(argv[i])], " ")

build_justin_cmd(argv_list, with_dune_setup) ==
    IF ~with_dune_setup THEN argv_list
    ELSE <<"bash", "-lc", Prelude \o QuoteJoin(argv_list)>>

\* The line run_cmd prints: "+ " and the shell-quoted real_argv.  Under the
\* bootstrap wrapper the command string is quoted a second time, which turns
\* each single quote of the inner quoting into '"'"'.
Printable(argv_list, with_dune_setup) ==
    IF ~with_dune_setup THEN "+ " \o QuoteJoin(argv_list)
    ELSE "+ bash -lc '" \o Prelude
            \o Join([i \in 1..Len(argv_list) |-> quote_with(argv_list[i], "'\"'\"'")], " ")
            \o "'"

\* ------------------------------------------------------- create-stage command

\* The global justin flags.
JustinGlobal(a) ==
    <<"justin">>
        \o (IF a.verbose THEN <<"-v">> ELSE <<>>)
        \o (IF Truthy(a.instance) THEN <<"--instance", a.instance.s>> ELSE <<>>)
        \o (IF Truthy(a.url) THEN <<"--url", a.url.s>> ELSE <<>>)

CreateWorkflowCmd(justin_global, workflow) ==
    justin_global \o <<"create-workflow",
                       "--description", as_str(workflow["description"]),
                       "--monte-carlo", as_str(workflow["monte_carlo"])>>

\* What `cmd += "--env DUNESW_VERSION=v10_17_01d00"` appends to the list cmd:
\* list += str extends the list by the characters of the string.
DuneswDefaultChars ==
    << "-", "-", "e", "n", "v", " ", "D", "U", "N", "E", "S",
       "W", "_", "V", "E", "R", "S", "I", "O", "N", "=", "v",
       "1", "0", "_", "1", "7", "_", "0", "1", "d", "0", "0" >>

\* "k" in st_merged and st_merged["k"] is not None
Configured(m, k) == k \in DOMAIN m /\ m[k].kind # "none"

\* "k" in st_merged and st_merged["k"]  /  st_merged.get("k")
Set(m, k) == k \in DOMAIN m /\ Truthy(m[k])

StageRepo(m, defaults) == Get(m, "repo", GetN(defaults, "repo"))

StageRef(m, defaults) == Get(m, "ref", GetN(defaults, "ref"))

StageJobscript(m) == GetN(m, "jobscript")

\* The head of the command with the repo and ref of the defaults preferred to
\* those of the stage.
StageHead_DefaultsFirst(justin_global, wfid, m, defaults) ==
    justin_global \o <<"create-stage",
                       "--workflow-id", wfid,
                       "--stage-id", as_str(m["id"]),
                       "--jobscript-git",
                       PyStr(Get(defaults, "repo", GetN(m, "repo"))) \o "/"
                           \o PyStr(StageJobscript(m))
                           \o ":" \o PyStr(Get(defaults, "ref", GetN(m, "ref")))>>

StageHead(justin_global, wfid, m, defaults) ==
    justin_global \o <<"create-stage",
                       "--workflow-id", wfid,
                       "--stage-id", as_str(m["id"]),
                       "--jobscript-git",
                       PyStr(StageRepo(m, defaults)) \o "/" \o PyStr(StageJobscript(m))
                           \o ":" \o PyStr(StageRef(m, defaults))>>

\* The resource flags with --gpu emitted whenever the key gpu is there.
StageResources_GpuPresent(m) ==
    (IF "wall_seconds" \in DOMAIN m THEN <<"--wall-seconds", as_str(m["wall_seconds"])>> ELSE <<>>)
        \o (IF "rss_mib" \in DOMAIN m THEN <<"--rss-mib", as_str(m["rss_mib"])>> ELSE <<>>)
        \o (IF "processors" \in DOMAIN m THEN <<"--processors", as_str(m["processors"])>> ELSE <<>>)
        \o (IF "gpu" \in DOMAIN m THEN <<"--gpu">> ELSE <<>>)

StageResources(m) ==
    (IF "wall_seconds" \in DOMAIN m THEN <<"--wall-seconds", as_str(m["wall_seconds"])>> ELSE <<>>)
        \o (IF "rss_mib" \in DOMAIN m THEN <<"--rss-mib", as_str(m["rss_mib"])>> ELSE <<>>)
        \o (IF "processors" \in DOMAIN m THEN <<"--processors", as_str(m["processors"])>> ELSE <<>>)
        \o (IF Truthy(Get(m, "gpu", BoolV(FALSE))) THEN <<"--gpu">> ELSE <<>>)

RECURSIVE EnvFlags(_, _)
EnvFlags(ks, vs) ==
    IF ks = <<>> THEN <<>>
    ELSE <<"--env", ks[1] \o "=" \o vs[1]>> \o EnvFlags(Tail(ks), Tail(vs))

RECURSIVE Repeated(_, _)
\* One `flag value` pair per item.
Repeated(flag, items) ==
    IF items = <<>> THEN <<>>
    ELSE <<flag, items[1]>> \o Repeated(flag, Tail(items))

StageEnv(m) ==
    LET env == OrEmptyDict(Get(m, "env", EmptyDictV))
    IN  EnvFlags(env.keys, env.vals)
            \o (IF Configured(m, "tarfile_dir")
                THEN <<"--env", "INPUT_TAR_DIR_LOCAL=" \o as_str(m["tarfile_dir"])>> ELSE <<>>)
            \o (IF Configured(m, "dunesw_version")
                THEN <<"--env", "DUNESW_VERSION=" \o as_str(m["dunesw_version"])>>
                ELSE DuneswDefaultChars)
            \o (IF Configured(m, "fhicl_files")
                THEN <<"--env", "FCL_TGZ_URL=" \o as_str(m["fhicl_files"])>> ELSE <<>>)

\* The output flags with `if` in place of `elif`: the singular field is
\* emitted next to the list.
StageOutputs_Both(m) ==
    (IF Set(m, "output_pattern_next_stage")
     THEN <<"--output-pattern-next-stage", as_str(m["output_pattern_next_stage"])>> ELSE <<>>)
        \o (IF Set(m, "output_patterns")
            THEN Repeated("--output-pattern", m["output_patterns"].vals) ELSE <<>>)
        \o (IF Set(m, "output_pattern")
            THEN <<"--output-pattern", as_str(m["output_pattern"])>> ELSE <<>>)
        \o (IF Set(m, "output_rse") THEN <<"--output-rse", as_str(m["output_rse"])>> ELSE <<>>)
        \o (IF Set(m, "output_rse_expression")
            THEN <<"--output-rse-expression", as_str(m["output_rse_expression"])>> ELSE <<>>)

StageOutputs(m) ==
    (IF Set(m, "output_pattern_next_stage")
     THEN <<"--output-pattern-next-stage", as_str(m["output_pattern_next_stage"])>> ELSE <<>>)
        \o (IF Set(m, "output_patterns")
            THEN Repeated("--output-pattern", m["output_patterns"].vals)
            ELSE IF Set(m, "output_pattern")
            THEN <<"--output-pattern", as_str(m["output_pattern"])>> ELSE <<>>)
        \o (IF Set(m, "output_rse") THEN <<"--output-rse", as_str(m["output_rse"])>> ELSE <<>>)
        \o (IF Set(m, "output_rse_expression")
            THEN <<"--output-rse-expression", as_str(m["output_rse_expression"])>> ELSE <<>>)

StagePlacement(m) ==
    (IF Configured(m, "lifetime_days")
     THEN <<"--lifetime-days", as_str(m["lifetime_days"])>> ELSE <<>>)
        \o (IF Configured(m, "max_distance")
            THEN <<"--max-distance", as_str(m["max_distance"])>> ELSE <<>>)
        \o (IF Set(m, "sites") THEN Repeated("--site", m["sites"].vals) ELSE <<>>)
        \o (IF Set(m, "classad")
            THEN IF m["classad"].kind = "list"
                 THEN Repeated("--classad", m["classad"].vals)
                 ELSE <<"--classad", as_str(m["classad"])>>
            ELSE <<>>)

\* The argument list of the create-stage call of the merged stage record m.
CreateStageCmd(justin_global, wfid, m, defaults) ==
    StageHead(justin_global, wfid, m, defaults)
        \o StageResources(m) \o StageEnv(m) \o StageOutputs(m) \o StagePlacement(m)

\* The requires of the loop body without the one on jobscript.
StageError_NoJobscript(m, defaults) ==
    LET stage_id == as_str(m["id"])
    IN  IF ~Truthy(StageRepo(m, defaults))
        THEN <<"Stage ", stage_id, ": repo missing (set defaults.repo or stage.repo).">>
        ELSE IF ~Truthy(StageRef(m, defaults))
        THEN <<"Stage ", stage_id, ": ref missing (set defaults.ref or stage.ref).">>
        ELSE <<>>

\* The message of the first require of the loop body that fails on the merged
\* record m, <<>> when all pass.
StageError(m, defaults) ==
    LET stage_id == as_str(m["id"])
        env == OrEmptyDict(Get(m, "env", EmptyDictV))
    IN  IF ~Truthy(StageRepo(m, defaults))
        THEN <<"Stage ", stage_id, ": repo missing (set defaults.repo or stage.repo).">>
        ELSE IF ~Truthy(StageRef(m, defaults))
        THEN <<"Stage ", stage_id, ": ref missing (set defaults.ref or stage.ref).">>
        ELSE IF ~Truthy(StageJobscript(m))
        THEN <<"Stage ", stage_id, ": jobscript missing.">>
        ELSE IF env.kind # "dict"
        THEN <<"Stage ", stage_id, ": env must be a dict of KEY: VALUE">>
        ELSE IF Set(m, "output_patterns") /\ m["output_patterns"].kind # "list"
        THEN <<"Stage ", stage_id, ": output_patterns must be a list">>
        ELSE IF Set(m, "sites") /\ m["sites"].kind # "list"
        THEN <<"Stage ", stage_id, ": sites must be a list">>
        ELSE <<>>

\* ------------------------------------------------------------------ inputs

\* Whitespace, as str.strip() sees it.
Whitespace == {" ", "\n", "\t"}

RECURSIVE LStrip(_)
LStrip(chunks) ==
    IF chunks # <<>> /\ Head(chunks) \in Whitespace THEN LStrip(Tail(chunks)) ELSE chunks

RECURSIVE RStrip(_)
RStrip(chunks) ==
    IF chunks # <<>> /\ chunks[Len(chunks)] \in Whitespace
    THEN RStrip(SubSeq(chunks, 1, Len(chunks) - 1)) ELSE chunks

\* text.strip(), text given as its runs of whitespace and of other characters.
Strip(chunks) == Join(RStrip(LStrip(chunks)), "")

\* What a justin process can return: exit status, standard output (as runs of
\* whitespace and non-whitespace), standard error.
ProcessResults ==
    { [returncode |-> 0, stdout |-> <<"17", "\n">>, stderr |-> ""],
      [returncode |-> 0, stdout |-> <<"\n", "a", " ", "b", " ">>, stderr |-> "warning"],
      [returncode |-> 0, stdout |-> <<" ", "\n">>, stderr |-> ""],
      [returncode |-> 1, stdout |-> <<>>, stderr |-> "justin: error"],
      [returncode |-> 2, stdout |-> <<"17", "\n">>, stderr |-> ""] }

\* A fabricated result that reports failure.
Dummy_Failure == [returncode |-> 1, stdout |-> <<>>, stderr |-> ""]

\* The result run_cmd fabricates under --dry-run.
Dummy == [returncode |-> 0, stdout |-> <<>>, stderr |-> ""]

\* The workflow: mappings of the documents.
WorkflowChoices ==
    { ("description" :> StrV("mc prod")) @@ ("monte_carlo" :> IntV(5)),
      "description" :> StrV("mc prod"),
      "monte_carlo" :> IntV(5),
      EmptyMap }

\* The defaults: mappings of the documents.
DefaultsChoices ==
    { EmptyMap,
      ("repo" :> StrV("org/repo")) @@ ("ref" :> StrV("main"))
          @@ ("env" :> DictV(<<"A", "B">>, <<"1", "2">>)) }

\* A stage entry of the stages: list: a mapping, or something else (isdict
\* FALSE: a scalar or a list where a mapping is expected).
StageEntry(d) == [isdict |-> TRUE, d |-> d]

NotAMapping == [isdict |-> FALSE, d |-> EmptyMap]

StageChoices ==
    { StageEntry(("id" :> StrV("b")) @@ ("repo" :> StrV("org/r2")) @@ ("ref" :> StrV("v1"))
                     @@ ("jobscript" :> StrV("g4.jobscript"))
                     @@ ("env" :> DictV(<<"B", "C">>, <<"3", "4">>))),
      StageEntry(("id" :> IntV(2)) @@ ("jobscript" :> StrV("gen.jobscript"))),
      StageEntry(("id" :> StrV("x9")) @@ ("repo" :> StrV("org/repo"))),
      StageEntry(("id" :> StrV("a")) @@ ("repo" :> StrV("")) @@ ("ref" :> StrV("v1"))
                     @@ ("jobscript" :> StrV("g4.jobscript"))),
      StageEntry(("repo" :> StrV("org/r2")) @@ ("ref" :> StrV("v1"))
                     @@ ("jobscript" :> StrV("g4.jobscript"))),
      NotAMapping }

\* The stage lists of at most MaxStages entries.
StageLists == UNION {[1..n -> StageChoices] : n \in 0..MaxStages}

\* The value of `cfg.get("stages", []) or []`: a list (empty when the key is
\* absent or its value is falsy), or a non-empty value that is no list.
StagesChoices ==
    {[islist |-> TRUE, items |-> l] : l \in StageLists}
        \cup {[islist |-> FALSE, items |-> <<>>]}

ArgsChoices ==
    [dry_run : BOOLEAN, with_dune_setup : BOOLEAN, verbose : BOOLEAN,
     instance : {NoneV, StrV("dune")}, url : {NoneV, StrV("https://justin.example/api")}]

\* ------------------------------------------------------------------- state

VARIABLES
    args,           \* the parsed command line
    workflow,       \* cfg.get("workflow", {}) or {}
    defaults,       \* cfg.get("defaults", {}) or {}
    stages,         \* cfg.get("stages", []) or []
    pc,             \* where main is
    rpc,            \* where run_cmd is: "idle", "entered", "echoed", "returned"
    justin_global,  \* the global justin flags
    wfid,           \* the workflow identifier
    idx,            \* the position of `st` in stages (for st in stages)
    cmd,            \* argv_list, the argument of the running run_cmd
    capture,        \* capture, the argument of the running run_cmd
    cp,             \* the result of the last run_cmd
    calls,          \* the argv_list of every run_cmd so far, as echoed
    results,        \* what every run_cmd so far returned
    printed,        \* the lines printed to standard output
    errors,         \* the messages printed to standard error
    procs,          \* the real_argv of every process spawned
    exit_code,      \* the exit status of the interpreter, -1 while main runs
    err,            \* the message of the exception that ended main, if any
    m_in,           \* the arguments of a call of merge_defaults on its own
    m_out,          \* what that call returned and left of its arguments
    retries,        \* fetch_job: its argument retries
    attempt,        \* fetch_job: attempt, the loop variable
    fields,         \* fetch_job: the dict fields
    gets,           \* fetch_job: every request made so far and how its pass went
    slept           \* fetch_job: the time.sleep calls so far, in half seconds

vars == <<args, workflow, defaults, stages, pc, rpc, justin_global, wfid, idx, cmd,
          capture, cp, calls, results, printed, errors, procs, exit_code, err,
          m_in, m_out, retries, attempt, fields, gets, slept>>

\* The state of fetch_job.
fetch_vars == <<retries, attempt, fields, gets, slept>>

\* What main never writes.
fixed == <<args, workflow, m_in, m_out, fetch_vars>>

config == <<fixed, defaults, stages>>

\* fetch_job not called.
NoFetch ==
    /\ retries = 0
    /\ attempt = 0
    /\ fields = EmptyMap
    /\ gets = <<>>
    /\ slept = <<>>

\* merge_defaults not called on its own.
NoCall == [status |-> "none", merged |-> EmptyMap, stage |-> EmptyMap, defaults |-> EmptyMap]

Init ==
    /\ args \in ArgsChoices
    /\ workflow \in WorkflowChoices
    /\ defaults \in DefaultsChoices
    /\ stages \in StagesChoices
    /\ pc = "start"
    /\ rpc = "idle"
    /\ justin_global = <<>>
    /\ wfid = ""
    /\ idx = 0
    /\ cmd = <<>>
    /\ capture = FALSE
    /\ cp = Dummy
    /\ calls = <<>>
    /\ results = <<>>
    /\ printed = <<>>
    /\ errors = <<>>
    /\ procs = <<>>
    /\ exit_code = -1
    /\ err = <<>>
    /\ m_in = [stage |-> EmptyMap, defaults |-> EmptyMap]
    /\ m_out = NoCall
    /\ NoFetch

\* ---------------------------------------------------------------- run_cmd

\* main calls run_cmd(argv_list, ..., capture=c) and continues at `next` when
\* it returns.
CallRunCmd(argv_list, c, next) ==
    /\ cmd' = argv_list
    /\ capture' = c
    /\ rpc' = "entered"
    /\ pc' = next

\* run_cmd builds real_argv and prints the command line.
RunCmdEcho ==
    /\ rpc = "entered"
    /\ printed' = Append(printed, Printable(cmd, args.with_dune_setup))
    /\ calls' = Append(calls, cmd)
    /\ rpc' = "echoed"
    /\ UNCHANGED <<config, pc, justin_global, wfid, idx, cmd, capture, cp, results,
                   errors, procs, exit_code, err>>

\* Under --dry-run run_cmd returns a fabricated successful result.
RunCmdDryRun ==
    /\ rpc = "echoed"
    /\ args.dry_run
    /\ cp' = Dummy
    /\ results' = Append(results, cp')
    /\ rpc' = "returned"
    /\ UNCHANGED <<config, pc, justin_global, wfid, idx, cmd, capture, calls, printed,
                   errors, procs, exit_code, err>>

\* run_cmd running the process without having printed the command line.
RunCmdSubprocess_Unechoed ==
    /\ rpc \in {"entered", "echoed"}
    /\ ~args.dry_run
    /\ \E r \in ProcessResults :
          cp' = IF capture THEN r ELSE [r EXCEPT !.stdout = <<>>, !.stderr = ""]
    /\ results' = Append(results, cp')
    /\ procs' = Append(procs, build_justin_cmd(cmd, args.with_dune_setup))
    /\ calls' = IF rpc = "entered" THEN Append(calls, cmd) ELSE calls
    /\ rpc' = "returned"
    /\ UNCHANGED <<config, pc, justin_global, wfid, idx, cmd, capture, printed,
                   errors, exit_code, err>>

\* Otherwise run_cmd runs real_argv and waits for the process to exit; the
\* output is kept only when capture is set.
RunCmdSubprocess ==
    /\ rpc = "echoed"
    /\ ~args.dry_run
    /\ \E r \in ProcessResults :
          cp' = IF capture THEN r ELSE [r EXCEPT !.stdout = <<>>, !.stderr = ""]
    /\ results' = Append(results, cp')
    /\ procs' = Append(procs, build_justin_cmd(cmd, args.with_dune_setup))
    /\ rpc' = "returned"
    /\ UNCHANGED <<config, pc, justin_global, wfid, idx, cmd, capture, calls, printed,
                   errors, exit_code, err>>

\* ------------------------------------------------------------------- main

\* sys.exit(code)
Exit(code) ==
    /\ pc' = "exited"
    /\ exit_code' = code

\* An exception nothing catches ends the interpreter with status 1.
Raise(msg) ==
    /\ pc' = "exited"
    /\ exit_code' = 1
    /\ err' = msg

\* The message of the first require on the document that fails, <<>> when the
\* document passes.
ConfigError ==
    IF ~(stages.islist /\ Len(stages.items) > 0)
    THEN <<"Config must contain a non-empty 'stages:' list.">>
    ELSE IF "description" \notin DOMAIN workflow
    THEN <<"workflow.description is required">>
    ELSE IF "monte_carlo" \notin DOMAIN workflow
    THEN <<"workflow.monte_carlo is required">>
    ELSE <<>>

\* main up to the create-workflow call: the requires on the document, the
\* global flags, the create-workflow command.
Start ==
    /\ pc = "start"
    /\ IF ConfigError # <<>>
       THEN /\ Raise(ConfigError)
            /\ UNCHANGED <<justin_global, cmd, capture, rpc>>
       ELSE /\ justin_global' = JustinGlobal(args)
            /\ CallRunCmd(CreateWorkflowCmd(JustinGlobal(args), workflow), TRUE, "create_wf")
            /\ UNCHANGED <<exit_code, err>>
    /\ UNCHANGED <<config, wfid, idx, cp, calls, results, printed, errors, procs>>

\* A returned status other than 1 taken for success.
CallFailed_StatusOne == cp.returncode = 1

\* getattr(cp, "returncode", 1) != 0
CallFailed == cp.returncode # 0

\* The lines a failed call prints to standard error.
FailureReport(headline) ==
    errors \o <<headline>> \o (IF cp.stderr # "" THEN <<<<cp.stderr>>>> ELSE <<>>)

\* The identifier taken without strip().
ParseWfid_NoStrip == IF ~args.dry_run THEN Join(cp.stdout, "") ELSE "DRYRUN_WFID"

\* The workflow identifier main takes from the create-workflow result.
ParseWfid == IF ~args.dry_run THEN Strip(cp.stdout) ELSE "DRYRUN_WFID"

\* A failed create-workflow tried again.
AfterCreateWorkflow_Retry ==
    /\ pc = "create_wf"
    /\ rpc = "returned"
    /\ IF CallFailed
       THEN /\ errors' = FailureReport(<<"ERROR: create-workflow failed.">>)
            /\ rpc' = "entered"
            /\ UNCHANGED <<pc, exit_code, wfid, idx, printed, err>>
       ELSE IF ParseWfid = ""
       THEN /\ Raise(<<"Could not parse workflow id from create-workflow output.">>)
            /\ wfid' = ParseWfid
            /\ rpc' = "idle"
            /\ UNCHANGED <<idx, printed, errors>>
       ELSE /\ wfid' = ParseWfid
            /\ printed' = Append(printed, "WFID=" \o ParseWfid)
            /\ idx' = 1
            /\ pc' = "stages"
            /\ rpc' = "idle"
            /\ UNCHANGED <<errors, exit_code, err>>
    /\ UNCHANGED <<config, justin_global, cmd, capture, cp, calls, results, procs>>

\* After create-workflow returned: exit 2 on failure, else take the identifier.
AfterCreateWorkflow ==
    /\ pc = "create_wf"
    /\ rpc = "returned"
    /\ rpc' = "idle"
    /\ IF CallFailed
       THEN /\ errors' = FailureReport(<<"ERROR: create-workflow failed.">>)
            /\ Exit(2)
            /\ UNCHANGED <<wfid, idx, printed, err>>
       ELSE IF ParseWfid = ""
       THEN /\ Raise(<<"Could not parse workflow id from create-workflow output.">>)
            /\ wfid' = ParseWfid
            /\ UNCHANGED <<idx, printed, errors>>
       ELSE /\ wfid' = ParseWfid
            /\ printed' = Append(printed, "WFID=" \o ParseWfid)
            /\ idx' = 1
            /\ pc' = "stages"
            /\ UNCHANGED <<errors, exit_code, err>>
    /\ UNCHANGED <<config, justin_global, cmd, capture, cp, calls, results, procs>>

\* The exception the loop body raises on the entry st before its create-stage
\* call, <<>> when there is none.
StageBodyError(st) ==
    IF ~st.isdict THEN <<"Each stage entry must be a mapping/dict.">>
    ELSE IF "id" \notin DOMAIN st.d THEN <<"Each stage needs an 'id'.">>
    ELSE IF merge_raises(st.d, defaults)
    THEN <<"dictionary update sequence element #0 has length 1; 2 is required">>
    ELSE StageError(merge_defaults(st.d, defaults), defaults)

\* The stages walked from the last to the first.
CurrentStage_Reversed == stages.items[Len(stages.items) + 1 - idx]

\* st in the pass of `for st in stages` that idx counts.
CurrentStage == stages.items[idx]

\* justin_global with cmd bound to the list justin_global itself: every
\* cmd += ... then grows justin_global.
GlobalAfterStage_Aliased(global, stage_cmd) == stage_cmd

\* justin_global after the create-stage command was built from it:
\* justin_global + [...] is a new list and every cmd += ... writes into that
\* one, so justin_global is left as it was.
GlobalAfterStage(global, stage_cmd) == global

\* One pass of `for st in stages` up to its create-stage call.
StageBody ==
    /\ pc = "stages"
    /\ idx <= Len(stages.items)
    /\ LET st     == CurrentStage
           merges == st.isdict /\ "id" \in DOMAIN st.d /\ ~merge_raises(st.d, defaults)
           eff    == MergeDefaultsEffect(st.d, defaults)
       IN  /\ defaults' = IF merges THEN eff.defaults ELSE defaults
           /\ stages' =
                 IF merges
                 THEN [stages EXCEPT !.items =
                          [i \in DOMAIN stages.items |->
                              IF stages.items[i] = st THEN StageEntry(eff.stage)
                              ELSE stages.items[i]]]
                 ELSE stages
           /\ IF StageBodyError(st) # <<>>
              THEN /\ Raise(StageBodyError(st))
                   /\ UNCHANGED <<justin_global, cmd, capture, rpc>>
              ELSE /\ CallRunCmd(CreateStageCmd(justin_global, wfid, eff.merged, defaults),
                                 TRUE, "create_stage")
                   /\ justin_global' =
                         GlobalAfterStage(justin_global,
                             CreateStageCmd(justin_global, wfid, eff.merged, defaults))
                   /\ UNCHANGED <<exit_code, err>>
    /\ UNCHANGED <<fixed, wfid, idx, cp, calls, results, printed, errors, procs>>

\* The loop going on to the next stage after a failed create-stage.
AfterCreateStage_KeepGoing ==
    /\ pc = "create_stage"
    /\ rpc = "returned"
    /\ rpc' = "idle"
    /\ errors' = IF CallFailed
                 THEN FailureReport(<<"ERROR: create-stage failed for stage ",
                                      as_str(CurrentStage.d["id"]), ".">>)
                 ELSE errors
    /\ idx' = idx + 1
    /\ pc' = "stages"
    /\ UNCHANGED <<config, justin_global, wfid, cmd, capture, cp, calls, results, printed,
                   procs, exit_code, err>>

\* After create-stage returned: exit 3 on failure, else the next stage.
AfterCreateStage ==
    /\ pc = "create_stage"
    /\ rpc = "returned"
    /\ rpc' = "idle"
    /\ IF CallFailed
       THEN /\ errors' = FailureReport(<<"ERROR: create-stage failed for stage ",
                                         as_str(CurrentStage.d["id"]), ".">>)
            /\ Exit(3)
            /\ UNCHANGED idx
       ELSE /\ idx' = idx + 1
            /\ pc' = "stages"
            /\ UNCHANGED <<errors, exit_code>>
    /\ UNCHANGED <<config, justin_global, wfid, cmd, capture, cp, calls, results, printed,
                   procs, err>>

\* The loop left one stage early.
SubmitWorkflow_OneEarly ==
    /\ pc = "stages"
    /\ idx >= Len(stages.items)
    /\ CallRunCmd(justin_global \o <<"submit-workflow", "--workflow-id", wfid>>,
                  TRUE, "submit")
    /\ UNCHANGED <<config, justin_global, wfid, idx, cp, calls, results, printed, errors,
                   procs, exit_code, err>>

\* The loop is over: the submit-workflow call.
SubmitWorkflow ==
    /\ pc = "stages"
    /\ idx > Len(stages.items)
    /\ CallRunCmd(justin_global \o <<"submit-workflow", "--workflow-id", wfid>>,
                  TRUE, "submit")
    /\ UNCHANGED <<config, justin_global, wfid, idx, cp, calls, results, printed, errors,
                   procs, exit_code, err>>

\* A failed submit-workflow reported with the create-stage status.
AfterSubmit_StageStatus ==
    /\ pc = "submit"
    /\ rpc = "returned"
    /\ IF CallFailed
       THEN /\ errors' = FailureReport(<<"ERROR: submit-workflow failed.">>)
            /\ Exit(3)
            /\ rpc' = "idle"
            /\ UNCHANGED <<cmd, capture, printed>>
       ELSE /\ printed' = Append(printed, "Submitted WFID=" \o wfid)
            /\ CallRunCmd(justin_global \o <<"show-stages", "--workflow-id", wfid>>,
                          FALSE, "show")
            /\ UNCHANGED <<errors, exit_code>>
    /\ UNCHANGED <<config, justin_global, wfid, idx, cp, calls, results, procs, err>>

\* After submit-workflow returned: exit 4 on failure, else the show-stages call.
AfterSubmit ==
    /\ pc = "submit"
    /\ rpc = "returned"
    /\ IF CallFailed
       THEN /\ errors' = FailureReport(<<"ERROR: submit-workflow failed.">>)
            /\ Exit(4)
            /\ rpc' = "idle"
            /\ UNCHANGED <<cmd, capture, printed>>
       ELSE /\ printed' = Append(printed, "Submitted WFID=" \o wfid)
            /\ CallRunCmd(justin_global \o <<"show-stages", "--workflow-id", wfid>>,
                          FALSE, "show")
            /\ UNCHANGED <<errors, exit_code>>
    /\ UNCHANGED <<config, justin_global, wfid, idx, cp, calls, results, procs, err>>

\* The show-stages status checked like that of the other calls.
Finish_Checked ==
    /\ pc = "show"
    /\ rpc = "returned"
    /\ rpc' = "idle"
    /\ Exit(IF CallFailed THEN 5 ELSE 0)
    /\ UNCHANGED <<config, justin_global, wfid, idx, cmd, capture, cp, calls, results,
                   printed, errors, procs, err>>

\* main waiting for ever after show-stages returned.
Finish_Hangs ==
    /\ pc = "show"
    /\ rpc = "returned"
    /\ UNCHANGED vars

\* After show-stages returned main ends, whatever the result.
Finish ==
    /\ pc = "show"
    /\ rpc = "returned"
    /\ rpc' = "idle"
    /\ Exit(0)
    /\ UNCHANGED <<config, justin_global, wfid, idx, cmd, capture, cp, calls, results, printed,
                   errors, procs, err>>

Next ==
    \/ Start
    \/ RunCmdEcho
    \/ RunCmdDryRun
    \/ RunCmdSubprocess
    \/ AfterCreateWorkflow
    \/ StageBody
    \/ AfterCreateStage
    \/ SubmitWorkflow
    \/ AfterSubmit
    \/ Finish

Spec == Init /\ [][Next]_vars

\* The runs under the plain command line (--dry-run or not, no other option).
InitLive ==
    /\ Init
    /\ ~args.with_dune_setup
    /\ ~args.verbose
    /\ args.instance = NoneV
    /\ args.url = NoneV

\* main is one sequential thread: it takes its next step whenever it has one,
\* and a spawned process exits (subprocess.run returns).
SpecLive == InitLive /\ [][Next]_vars /\ WF_vars(Next)

\* ------------------------------------------------- merge_defaults on its own

\* A key the document does not give.
AbsentV == [kind |-> "absent", s |-> "", keys |-> <<>>, vals |-> <<>>]

\* The mapping {k: v}, or {} when the document does not give k.
Opt(k, v) == IF v.kind = "absent" THEN EmptyMap ELSE k :> v

\* The stage records merge_defaults is applied to.
MergeStageChoices ==
    { ("id" :> StrV("b")) @@ Opt("repo", repo) @@ Opt("sites", sites) @@ Opt("env", env) :
        repo \in {AbsentV, StrV("org/r2"), NoneV},
        sites \in {AbsentV, ListV(<<"US_FNAL">>)},
        env \in {AbsentV, NoneV, EmptyDictV, DictV(<<"B", "C">>, <<"3", "4">>),
                 DictV(<<"C", "A">>, <<"4", "9">>), StrV("FOO=1")} }

\* The defaults merge_defaults is applied to.
MergeDefaultsChoices ==
    { Opt("repo", repo) @@ Opt("ref", ref) @@ Opt("sites", sites) @@ Opt("env", env) :
        repo \in {AbsentV, StrV("org/repo")},
        ref \in {AbsentV, StrV("main")},
        sites \in {AbsentV, ListV(<<"UK_RAL", "US_FNAL">>)},
        env \in {AbsentV, NoneV, DictV(<<"A", "B">>, <<"1", "2">>), IntV(5)} }

InitMerge ==
    /\ m_in \in [stage : MergeStageChoices, defaults : MergeDefaultsChoices]
    /\ m_out = NoCall
    /\ NoFetch
    /\ args = [dry_run |-> TRUE, with_dune_setup |-> FALSE, verbose |-> FALSE,
               instance |-> NoneV, url |-> NoneV]
    /\ workflow = EmptyMap
    /\ defaults = EmptyMap
    /\ stages = [islist |-> TRUE, items |-> <<>>]
    /\ pc = "merge"
    /\ rpc = "idle"
    /\ justin_global = <<>>
    /\ wfid = ""
    /\ idx = 0
    /\ cmd = <<>>
    /\ capture = FALSE
    /\ cp = Dummy
    /\ calls = <<>>
    /\ results = <<>>
    /\ printed = <<>>
    /\ errors = <<>>
    /\ procs = <<>>
    /\ exit_code = -1
    /\ err = <<>>

\* merge_defaults(stage, defaults) returns.
MergeReturns ==
    /\ m_out.status = "none"
    /\ ~merge_raises(m_in.stage, m_in.defaults)
    /\ m_out' = [status |-> "returned"] @@ MergeDefaultsEffect(m_in.stage, m_in.defaults)
    /\ UNCHANGED <<args, workflow, defaults, stages, pc, rpc, justin_global, wfid, idx,
                   cmd, capture, cp, calls, results, printed, errors, procs, exit_code,
                   err, m_in, fetch_vars>>

\* merge_defaults(stage, defaults) raises in dict(): nothing was written yet.
MergeRaises ==
    /\ m_out.status = "none"
    /\ merge_raises(m_in.stage, m_in.defaults)
    /\ m_out' = [status |-> "raised", merged |-> EmptyMap,
                 stage |-> m_in.stage, defaults |-> m_in.defaults]
    /\ UNCHANGED <<args, workflow, defaults, stages, pc, rpc, justin_global, wfid, idx,
                   cmd, capture, cp, calls, results, printed, errors, procs, exit_code,
                   err, m_in, fetch_vars>>

NextMerge ==
    \/ MergeReturns
    \/ MergeRaises

SpecMerge == InitMerge /\ [][NextMerge]_vars

\* ------------------------------------------- one stage with optional fields

\* The stage records of a one-stage document: the required fields, and the
\* optional fields absent, well typed or ill typed.
BuildStageChoices ==
    { ("id" :> StrV("b")) @@ ("repo" :> StrV("org/repo")) @@ ("ref" :> StrV("main"))
          @@ ("jobscript" :> StrV("g4.jobscript"))
          @@ Opt("dunesw_version", dv) @@ Opt("output_pattern", op)
          @@ Opt("output_patterns", ops) @@ Opt("env", env) @@ Opt("sites", sites) :
        dv \in {AbsentV, NoneV, StrV("v09_91_02d01")},
        op \in {AbsentV, StrV("*.root")},
        ops \in {AbsentV, ListV(<<>>), ListV(<<"*_gen.root", "hist.root">>), StrV("*_gen.root")},
        env \in {AbsentV, DictV(<<"B", "C">>, <<"3", "4">>), StrV("FOO=1")},
        sites \in {AbsentV, ListV(<<"US_FNAL">>), StrV("US_FNAL")} }

InitBuild ==
    /\ args \in [dry_run : BOOLEAN, with_dune_setup : BOOLEAN, verbose : {FALSE},
                 instance : {NoneV}, url : {NoneV}]
    /\ workflow = ("description" :> StrV("mc prod")) @@ ("monte_carlo" :> IntV(5))
    /\ defaults \in DefaultsChoices
    /\ stages \in {[islist |-> TRUE, items |-> <<StageEntry(d)>>] : d \in BuildStageChoices}
    /\ pc = "start"
    /\ rpc = "idle"
    /\ justin_global = <<>>
    /\ wfid = ""
    /\ idx = 0
    /\ cmd = <<>>
    /\ capture = FALSE
    /\ cp = Dummy
    /\ calls = <<>>
    /\ results = <<>>
    /\ printed = <<>>
    /\ errors = <<>>
    /\ procs = <<>>
    /\ exit_code = -1
    /\ err = <<>>
    /\ m_in = [stage |-> EmptyMap, defaults |-> EmptyMap]
    /\ m_out = NoCall
    /\ NoFetch

SpecBuild == InitBuild /\ [][Next]_vars

\* ------------------------------------------- one stage with resource fields

\* The stage records of a one-stage document with the resource fields absent
\* or given.
ResourceStageChoices ==
    { ("id" :> StrV("b")) @@ ("repo" :> StrV("org/repo")) @@ ("ref" :> StrV("main"))
          @@ ("jobscript" :> StrV("g4.jobscript"))
          @@ Opt("wall_seconds", ws) @@ Opt("rss_mib", rss)
          @@ Opt("processors", np) @@ Opt("gpu", gpu) :
        ws \in {AbsentV, IntV(3600), NoneV},
        rss \in {AbsentV, IntV(2000)},
        np \in {AbsentV, IntV(2)},
        gpu \in {AbsentV, BoolV(TRUE), BoolV(FALSE), NoneV} }

\* The defaults of such a document.
ResourceDefaultsChoices ==
    { EmptyMap, ("wall_seconds" :> IntV(7200)) @@ ("gpu" :> BoolV(TRUE)) }

InitResources ==
    /\ args \in [dry_run : BOOLEAN, with_dune_setup : {FALSE}, verbose : {FALSE},
                 instance : {NoneV}, url : {NoneV}]
    /\ workflow = ("description" :> StrV("mc prod")) @@ ("monte_carlo" :> IntV(5))
    /\ defaults \in ResourceDefaultsChoices
    /\ stages \in {[islist |-> TRUE, items |-> <<StageEntry(d)>>] : d \in ResourceStageChoices}
    /\ pc = "start"
    /\ rpc = "idle"
    /\ justin_global = <<>>
    /\ wfid = ""
    /\ idx = 0
    /\ cmd = <<>>
    /\ capture = FALSE
    /\ cp = Dummy
    /\ calls = <<>>
    /\ results = <<>>
    /\ printed = <<>>
    /\ errors = <<>>
    /\ procs = <<>>
    /\ exit_code = -1
    /\ err = <<>>
    /\ m_in = [stage |-> EmptyMap, defaults |-> EmptyMap]
    /\ m_out = NoCall
    /\ NoFetch

SpecResources == InitResources /\ [][Next]_vars

\* ---------------------------------------------------------------- fetch_job

\* What one pass of the loop can meet: session.get or raise_for_status raises
\* (raises), or the page comes back and the regular expressions find, or do
\* not find (AbsentV), the stage id, the job state and the four summary fields.
Response(raises, stage, state, exit, wall, cpu, rss) ==
    [raises |-> raises, stage |-> stage, state |-> state,
     exit |-> exit, wall |-> wall, cpu |-> cpu, rss |-> rss]

ResponseChoices ==
    { Response(TRUE, AbsentV, AbsentV, AbsentV, AbsentV, AbsentV, AbsentV),
      Response(FALSE, AbsentV, AbsentV, AbsentV, AbsentV, AbsentV, AbsentV),
      Response(FALSE, IntV(1), StrV("running"), AbsentV, AbsentV, AbsentV, AbsentV),
      Response(FALSE, IntV(1), StrV("finished"), IntV(0), StrV("0m (22s)"),
               StrV("0m (19s = 86%)"), StrV("587616256 (560 MiB)")),
      Response(FALSE, IntV(1), StrV("finished"), IntV(0), StrV("0m (22s)"),
               AbsentV, AbsentV) }

\* job_state and "finished" in job_state.group(1)
Finished(r) == r.state.kind = "str" /\ r.state.s = "finished"

\* The pass raises: in the request, or in m.group(1) on a summary field the
\* page of a finished job does not have.
PassRaises(r) ==
    IF r.raises THEN TRUE
    ELSE Finished(r) /\ AbsentV \in {r.exit, r.wall, r.cpu, r.rss}

\* fields after the pass: the assignments made up to the exception, if any.
\* The four summary fields are assigned in the order exit, wall, cpu, rss and
\* the first one the page does not have raises.
FieldsAfter(f, r) ==
    IF r.raises THEN f
    ELSE LET f1 == Update(f, Opt("stageID", r.stage) @@ Opt("jobState", r.state))
             f2 == Update(f1, Opt("exit", r.exit))
             f3 == Update(f2, Opt("wall", r.wall))
             f4 == Update(f3, Opt("cpu", r.cpu))
         IN  IF ~Finished(r) \/ r.exit = AbsentV THEN f1
             ELSE IF r.wall = AbsentV THEN f2
             ELSE IF r.cpu = AbsentV THEN f3
             ELSE IF r.rss = AbsentV THEN f4
             ELSE Update(f4, Opt("rss", r.rss))

InitFetch ==
    /\ retries \in 0..MaxRetries
    /\ attempt = 1
    /\ fields = EmptyMap
    /\ gets = <<>>
    /\ slept = <<>>
    /\ pc = "fetch"
    /\ m_in = [stage |-> EmptyMap, defaults |-> EmptyMap]
    /\ m_out = NoCall
    /\ args = [dry_run |-> TRUE, with_dune_setup |-> FALSE, verbose |-> FALSE,
               instance |-> NoneV, url |-> NoneV]
    /\ workflow = EmptyMap
    /\ defaults = EmptyMap
    /\ stages = [islist |-> TRUE, items |-> <<>>]
    /\ rpc = "idle"
    /\ justin_global = <<>>
    /\ wfid = ""
    /\ idx = 0
    /\ cmd = <<>>
    /\ capture = FALSE
    /\ cp = Dummy
    /\ calls = <<>>
    /\ results = <<>>
    /\ printed = <<>>
    /\ errors = <<>>
    /\ procs = <<>>
    /\ exit_code = -1
    /\ err = <<>>

\* One pass of `for attempt in range(1, retries + 1)`: the request, the
\* parsing, and then the break, the except clause with its sleep, or neither.
FetchAttempt ==
    /\ pc = "fetch"
    /\ attempt <= retries
    /\ \E r \in ResponseChoices :
          /\ gets' = Append(gets, [attempt |-> attempt, response |-> r,
                                   raised |-> PassRaises(r)])
          /\ fields' = FieldsAfter(fields, r)
          /\ slept' = IF PassRaises(r) THEN Append(slept, attempt) ELSE slept
          /\ printed' = IF PassRaises(r) THEN Append(printed, "ERROR:") ELSE printed
          /\ pc' = IF Finished(r) /\ ~PassRaises(r) THEN "fetch_break" ELSE "fetch"
          /\ attempt' = IF Finished(r) /\ ~PassRaises(r) THEN attempt ELSE attempt + 1
    /\ UNCHANGED <<args, workflow, defaults, stages, rpc, justin_global, wfid, idx, cmd,
                   capture, cp, calls, results, errors, procs, exit_code, err, m_in,
                   m_out, retries>>

\* The loop is over, by exhaustion or by break: return fields.
FetchReturn ==
    /\ IF pc = "fetch" THEN attempt > retries ELSE pc = "fetch_break"
    /\ pc' = "fetch_returned"
    /\ UNCHANGED <<args, workflow, defaults, stages, rpc, justin_global, wfid, idx, cmd,
                   capture, cp, calls, results, printed, errors, procs, exit_code, err,
                   m_in, m_out, fetch_vars>>

NextFetch ==
    \/ FetchAttempt
    \/ FetchReturn

SpecFetch == InitFetch /\ [][NextFetch]_vars

\* ---------------------------------------------- testing/multistep/workflow.py

\* The strings str.isdigit() accepts, among those of the model.
DigitStrings == {"17", "0042", "5"}

\* The command of the n-th call of run() in main, WFID the identifier: a list
\* whose items are strings, or integers where main passes an int constant.
ScriptCommand(n, WFID) ==
    LET S(x) == StrV(x)
        head(id, script) ==
            <<S("justin"), S("create-stage"), S("--workflow-id"), S(WFID),
              S("--stage-id"), S(id),
              S("--jobscript-git"),
              S("SFBayLaser/dune-justin/testing/multistep/" \o script \o ":main")>>
    IN  CASE n = 1 -> <<S("justin"), S("create-workflow"),
                        S("--description"), S("gen->reco 2 hit"),
                        S("--monte-carlo"), S("5")>>
          [] n = 2 -> head("1", "gen.jobscript")
                        \o <<S("--wall-seconds"), IntV(14400), S("--rss-mib"), IntV(4000),
                             S("--env"), S("NEVENTS=50"),
                             S("--env"), S("JOB_FHICL_FILE=mpvmpr_gen_1x2x6.fcl"),
                             S("--output-pattern-next-stage"), S("*_gen.root"),
                             S("--lifetime-days"), S("1")>>
          [] n = 3 -> head("2", "g4.jobscript")
                        \o <<S("--env"), S("JOB_FHICL_FILE=standard_g4_dune10kt_1x2x6.fcl"),
                             S("--wall-seconds"), IntV(28800), S("--rss-mib"), IntV(6000),
                             S("--output-pattern-next-stage"), S("*_g4.root"),
                             S("--lifetime-days"), S("1")>>
          [] n = 4 -> head("3", "detsim.jobscript")
                        \o <<S("--env"), S("JOB_FHICL_FILE=standard_detsim_dune10kt_1x2x6.fcl"),
                             S("--wall-seconds"), IntV(28800), S("--rss-mib"), IntV(6000),
                             S("--output-pattern-next-stage"), S("*_detsim.root"),
                             S("--lifetime-days"), S("1")>>
          [] n = 5 -> head("4", "reco.jobscript")
                        \o <<S("--env"),
                             S("JOB_FHICL_FILE=standard_mythical_supera_dune10kt_1x2x6.fcl"),
                             S("--wall-seconds"), IntV(28800), S("--rss-mib"), IntV(6000),
                             S("--output-pattern"), S("*_reco.root"),
                             S("--output-pattern"), S("*_larcv.root"),
                             S("--output-rse-expression"), S("DUNE_US_FNAL_DISK_STAGE"),
                             S("--lifetime-days"), S("90")>>
          [] n = 6 -> <<S("justin"), S("submit-workflow"), S("--workflow-id"), S(WFID)>>
          [] OTHER -> <<S("justin"), S("show-stages"), S("--workflow-id"), S(WFID)>>

\* The number of calls of run() in main.
ScriptCalls == 7

\* check, the argument of the n-th call of run(): False for show-stages only.
ScriptCheck(n) == n # ScriptCalls

\* What a justin process can return to the script.
ScriptProcessResults ==
    [returncode : {0, 1, 2},
     stdout : { <<>>, <<"\n">>, <<"17", "\n">>, <<" ", "17", "\n">>, <<"0042", "\n">>,
                <<"17", " ", "created", "\n">>, <<"Workflow", " ", "17", "\n">>,
                <<"-1", "\n">>, <<"5">>, <<"17", "\n", "0042", "\n">>,
                <<"\t", "5", "\n">>, <<"error", "\n">> },
     stderr : {"", "justin: error"}]

\* shlex.quote raises TypeError on an item that is no string.
QuoteRaises(argv) == \E i \in 1..Len(argv) : argv[i].kind # "str"

\* The items of a list of strings.
Strings(argv) == [i \in 1..Len(argv) |-> argv[i].s]

\* An exception leaves main: the handler of __main__ reports it and exits 2.
ScriptRaise(msg) ==
    /\ errors' = Append(errors, <<"ERROR: ">> \o msg)
    /\ err' = msg
    /\ pc' = "exited"
    /\ exit_code' = 2

InitScript ==
    /\ pc = "script_start"
    /\ rpc = "idle"
    /\ justin_global = <<"justin">>
    /\ wfid = ""
    /\ idx = 0
    /\ cmd = <<>>
    /\ capture = TRUE
    /\ cp = Dummy
    /\ calls = <<>>
    /\ results = <<>>
    /\ printed = <<>>
    /\ errors = <<>>
    /\ procs = <<>>
    /\ exit_code = -1
    /\ err = <<>>
    /\ args = [dry_run |-> FALSE, with_dune_setup |-> FALSE, verbose |-> FALSE,
               instance |-> NoneV, url |-> NoneV]
    /\ workflow = EmptyMap
    /\ defaults = EmptyMap
    /\ stages = [islist |-> TRUE, items |-> <<>>]
    /\ m_in = [stage |-> EmptyMap, defaults |-> EmptyMap]
    /\ m_out = NoCall
    /\ NoFetch

\* main calls run() on its first command.
ScriptStart ==
    /\ pc = "script_start"
    /\ idx' = 1
    /\ cmd' = ScriptCommand(1, wfid)
    /\ rpc' = "entered"
    /\ pc' = "script_run"
    /\ UNCHANGED <<config, justin_global, wfid, capture, cp, calls, results, printed,
                   errors, procs, exit_code, err>>

\* run() prints the quoted command; the quoting raises on an item that is no
\* string.
ScriptRunEcho ==
    /\ pc = "script_run"
    /\ rpc = "entered"
    /\ IF QuoteRaises(cmd)
       THEN /\ ScriptRaise(<<"expected string or bytes-like object, got 'int'">>)
            /\ UNCHANGED <<rpc, printed, calls>>
       ELSE /\ printed' = Append(printed, "+ " \o QuoteJoin(Strings(cmd)))
            /\ calls' = Append(calls, Strings(cmd))
            /\ rpc' = "echoed"
            /\ UNCHANGED <<pc, errors, exit_code, err>>
    /\ UNCHANGED <<config, justin_global, wfid, idx, cmd, capture, cp, results, procs>>

\* run() runs the command, prints what it captured, and raises when check is
\* set and the status is not 0.
ScriptRunSubprocess ==
    /\ pc = "script_run"
    /\ rpc = "echoed"
    /\ \E r \in ScriptProcessResults :
          /\ cp' = r
          /\ results' = Append(results, r)
          /\ procs' = Append(procs, Strings(cmd))
          /\ printed' = IF r.stdout # <<>> THEN Append(printed, Join(r.stdout, ""))
                        ELSE printed
          /\ IF ScriptCheck(idx) /\ r.returncode # 0
             THEN /\ errors' = (IF r.stderr # "" THEN Append(errors, <<r.stderr>>) ELSE errors)
                                  \o << <<"ERROR: ", "Command failed (rc=",
                                          ToString(r.returncode), "): ",
                                          Join(Strings(cmd), " ")>> >>
                  /\ err' = <<"Command failed (rc=", ToString(r.returncode), "): ",
                              Join(Strings(cmd), " ")>>
                  /\ pc' = "exited"
                  /\ exit_code' = 2
                  /\ UNCHANGED rpc
             ELSE /\ errors' = IF r.stderr # "" THEN Append(errors, <<r.stderr>>) ELSE errors
                  /\ rpc' = "returned"
                  /\ UNCHANGED <<pc, exit_code, err>>
    /\ UNCHANGED <<config, justin_global, wfid, idx, cmd, capture, calls>>

\* main after run() returned: the identifier is parsed after the first call,
\* main returns 0 after the last one, and otherwise calls run() on the next
\* command.
ScriptAfterRun ==
    /\ pc = "script_run"
    /\ rpc = "returned"
    /\ LET out   == RStrip(LStrip(cp.stdout))
           token == IF out = <<>> THEN "" ELSE out[1]
           WFID  == IF idx = 1 THEN token ELSE wfid
       IN  IF idx = 1 /\ out = <<>>
           THEN /\ ScriptRaise(<<"list index out of range">>)
                /\ UNCHANGED <<wfid, idx, cmd, rpc, printed>>
           ELSE IF idx = 1 /\ token \notin DigitStrings
           THEN /\ ScriptRaise(<<"Couldn't parse workflow id from output: ", Join(out, "")>>)
                /\ UNCHANGED <<wfid, idx, cmd, rpc, printed>>
           ELSE IF idx = ScriptCalls
           THEN /\ pc' = "exited"
                /\ exit_code' = 0
                /\ rpc' = "idle"
                /\ UNCHANGED <<wfid, idx, cmd, printed, errors, err>>
           ELSE /\ wfid' = WFID
                /\ printed' = IF idx = 1 THEN Append(printed, "WFID=" \o WFID)
                              ELSE IF idx = 6 THEN Append(printed, "Submitted WFID=" \o WFID)
                              ELSE printed
                /\ idx' = idx + 1
                /\ cmd' = ScriptCommand(idx + 1, WFID)
                /\ rpc' = "entered"
                /\ UNCHANGED <<pc, errors, exit_code, err>>
    /\ UNCHANGED <<config, justin_global, capture, cp, calls, results, procs>>

NextScript ==
    \/ ScriptStart
    \/ ScriptRunEcho
    \/ ScriptRunSubprocess
    \/ ScriptAfterRun

SpecScript == InitScript /\ [][NextScript]_vars

\* ------------------------------------------------------------ observations

\* The subcommand of a call: the token after the global flags.
Subcommand(c) == c[Len(justin_global) + 1]

\* The token that follows the first occurrence of flag in the call c.
FlagValue(c, flag) == c[IndexOf(c, flag) + 1]

\* The positions in calls of the calls of subcommand sub.
CallsOf(sub) == {k \in 1..Len(calls) : Subcommand(calls[k]) = sub}

\* The create-stage calls, in the order issued.
StageCalls == SelectSeq(calls, LAMBDA c : Subcommand(c) = "create-stage")

\* Call k has returned with a non-zero status.
Failed(k) == k <= Len(results) /\ results[k].returncode # 0

\* Call k has returned with status zero.
Succeeded(k) == k <= Len(results) /\ results[k].returncode = 0

\* ------------------------------------------------------------------ claims

\* C1: when a create-stage call returns a non-zero status, that call is the
\* last call of the run (no create-stage for a later stage, no submit-workflow,
\* no show-stages), main has nothing left to do but exit, and it exits with 3.
C1_FailStopOnStage ==
    \A k \in CallsOf("create-stage") :
        Failed(k) =>
            /\ Len(calls) = k
            /\ rpc \in {"returned", "idle"}
            /\ pc \in {"create_stage", "exited"}
            /\ pc = "exited" => exit_code = 3

\* C1 witness: the first of two declared stages failed and the run ended with 3
\* after two calls.
C1_Witness ==
    /\ pc = "exited"
    /\ exit_code = 3
    /\ Len(stages.items) = 2
    /\ Len(calls) = 2
    /\ Failed(2)

\* C2: the i-th create-stage call carries the id of the i-th declared stage,
\* whatever the ids are; a run that ends with success has issued one per stage.
C2_StageOrder ==
    /\ Len(StageCalls) <= Len(stages.items)
    /\ \A i \in 1..Len(StageCalls) :
          /\ "id" \in DOMAIN stages.items[i].d
          /\ FlagValue(StageCalls[i], "--stage-id") = as_str(stages.items[i].d["id"])
    /\ (pc = "exited" /\ exit_code = 0) => Len(StageCalls) = Len(stages.items)

\* C2 witness: a finished run whose stage ids "b", 2 are neither sorted nor all
\* numeric.
C2_Witness ==
    /\ pc = "exited"
    /\ exit_code = 0
    /\ Len(StageCalls) = 2
    /\ FlagValue(StageCalls[1], "--stage-id") = "b"
    /\ FlagValue(StageCalls[2], "--stage-id") = "2"

\* C3: in a real run the identifier is the trimmed standard output of the
\* create-workflow call, it stays that from then on, and the token after
\* --workflow-id of every later call is exactly it.
C3_IdentifierPropagation ==
    (~args.dry_run /\ Succeeded(1) /\ ~(pc = "create_wf")) =>
        /\ wfid = Strip(results[1].stdout)
        /\ \A k \in 2..Len(calls) :
              FlagValue(calls[k], "--workflow-id") = Strip(results[1].stdout)

\* C3 witness: a real run that went through to show-stages with an identifier
\* that had whitespace around and inside it.
C3_Witness ==
    /\ ~args.dry_run
    /\ pc = "exited"
    /\ exit_code = 0
    /\ results[1].stdout = <<"\n", "a", " ", "b", " ">>
    /\ wfid = "a b"
    /\ Len(calls) = Len(stages.items) + 3

\* C4: when create-workflow returns a non-zero status no other call is ever
\* issued and the run ends with exit code 2.
C4_CreateWorkflowFailure ==
    Failed(1) =>
        /\ Len(calls) = 1
        /\ rpc \in {"returned", "idle"}
        /\ pc \in {"create_wf", "exited"}
        /\ pc = "exited" => exit_code = 2

\* C4 witness: a run ended by a failed create-workflow.
C4_Witness ==
    /\ pc = "exited"
    /\ Failed(1)
    /\ exit_code = 2
    /\ Len(stages.items) = 2

\* C5, as claimed: a real run whose create-workflow exits 0 with only
\* whitespace on standard output ends with exit code 2 and no later call.
C5_UnparseableExitsTwo ==
    (~args.dry_run /\ Succeeded(1) /\ Strip(results[1].stdout) = "" /\ pc = "exited") =>
        (exit_code = 2 /\ Len(calls) = 1)

\* C6: when submit-workflow returns a non-zero status (every create-stage
\* having succeeded) show-stages is never issued and the run ends with 4.
C6_SubmitFailure ==
    \A k \in CallsOf("submit-workflow") :
        Failed(k) =>
            /\ \A j \in CallsOf("create-stage") : Succeeded(j)
            /\ Len(calls) = k
            /\ CallsOf("show-stages") = {}
            /\ rpc \in {"returned", "idle"}
            /\ pc \in {"submit", "exited"}
            /\ pc = "exited" => exit_code = 4

\* C6 witness: two stages created, submit-workflow failed, exit code 4.
C6_Witness ==
    /\ pc = "exited"
    /\ exit_code = 4
    /\ Len(StageCalls) = 2
    /\ Failed(4)

\* C7: once submit-workflow has succeeded the run ends the same way whatever
\* show-stages returns: exit code 0, no exception, nothing on standard error.
C7_ShowStagesAdvisory ==
    (pc = "exited" /\ \E k \in CallsOf("submit-workflow") : Succeeded(k)) =>
        /\ exit_code = 0
        /\ err = <<>>
        /\ errors = <<>>
        /\ Subcommand(calls[Len(calls)]) = "show-stages"
        /\ Len(results) = Len(calls)

\* C7 witness: show-stages returned a non-zero status and the run ended with 0.
C7_Witness ==
    /\ pc = "exited"
    /\ exit_code = 0
    /\ Subcommand(calls[Len(calls)]) = "show-stages"
    /\ Failed(Len(calls))

\* The document passes every check main makes on it.
ValidConfig ==
    /\ ConfigError = <<>>
    /\ \A i \in 1..Len(stages.items) : StageBodyError(stages.items[i]) = <<>>

\* C8: under --dry-run no process is ever spawned and every run_cmd returns
\* return code 0 with empty output; for a document that passes validation the
\* run goes on until it has echoed create-workflow, one create-stage per stage
\* in order, submit-workflow and show-stages, all with DRYRUN_WFID, and ends
\* with success.
C8_DryRunPurity ==
    args.dry_run =>
        /\ procs = <<>>
        /\ \A k \in 1..Len(results) :
              results[k] = [returncode |-> 0, stdout |-> <<>>, stderr |-> ""]
        /\ ValidConfig =>
              /\ pc # "exited" => ENABLED Next
              /\ pc = "exited" =>
                    /\ exit_code = 0
                    /\ err = <<>>
                    /\ Len(calls) = Len(stages.items) + 3
                    /\ Len(printed) = Len(calls) + 2
                    /\ Subcommand(calls[1]) = "create-workflow"
                    /\ \A i \in 1..Len(stages.items) :
                          /\ Subcommand(calls[i + 1]) = "create-stage"
                          /\ FlagValue(calls[i + 1], "--stage-id")
                                = as_str(stages.items[i].d["id"])
                    /\ Subcommand(calls[Len(calls) - 1]) = "submit-workflow"
                    /\ Subcommand(calls[Len(calls)]) = "show-stages"
                    /\ \A k \in 2..Len(calls) :
                          FlagValue(calls[k], "--workflow-id") = "DRYRUN_WFID"

\* C8 witness: a finished dry run of a two-stage document.
C8_Witness ==
    /\ args.dry_run
    /\ pc = "exited"
    /\ exit_code = 0
    /\ Len(stages.items) = 2
    /\ Len(calls) = 5

\* The document is malformed in one of the ways the configuration model lists.
Malformed ==
    \/ ~stages.islist
    \/ stages.items = <<>>
    \/ \E i \in 1..Len(stages.items) :
          ~stages.items[i].isdict \/ "id" \notin DOMAIN stages.items[i].d
    \/ "description" \notin DOMAIN workflow
    \/ "monte_carlo" \notin DOMAIN workflow

\* C9, as claimed: a malformed document leads to no external call at all.
C9_ConfigErrorsBeforeCalls == Malformed => calls = <<>>

\* The k-th stage entry is a mapping with an id that merges with the defaults
\* into a record without a non-empty repo, ref or jobscript.
MissingRequired(k) ==
    LET st == stages.items[k]
    IN  /\ st.isdict
        /\ "id" \in DOMAIN st.d
        /\ ~merge_raises(st.d, defaults)
        /\ \E f \in {"repo", "ref", "jobscript"} : ~Set(merge_defaults(st.d, defaults), f)

\* C10: when the merged record of the k-th stage lacks a non-empty repo, ref
\* or jobscript, no create-stage call is issued for stage k or a later one, no
\* submit-workflow call is issued, and a run that gets to stage k ends there
\* with an exception whose message names the id of stage k.
C10_RequiredFieldRejection ==
    \A k \in 1..Len(stages.items) :
        MissingRequired(k) =>
            /\ Len(StageCalls) < k
            /\ CallsOf("submit-workflow") = {}
            /\ idx <= k
            /\ (idx = k /\ pc # "stages") =>
                  /\ pc = "exited"
                  /\ exit_code # 0
                  /\ Len(err) = 3
                  /\ err[1] = "Stage "
                  /\ err[2] = as_str(stages.items[k].d["id"])

\* C10 witness: the second stage lacks a jobscript; the run ended on it after
\* the create-stage call of the first.
C10_Witness ==
    /\ Len(stages.items) = 2
    /\ MissingRequired(2)
    /\ pc = "exited"
    /\ idx = 2
    /\ Len(StageCalls) = 1
    /\ err = <<"Stage ", "x9", ": jobscript missing.">>

\* The env of a record as merge_defaults reads it: {} when absent or falsy.
EnvOf(d) == OrEmptyDict(Get(d, "env", EmptyDictV))

\* The value of key k in the env dict e.
EnvValue(e, k) == e.vals[IndexOf(e.keys, k)]

\* C11: the env of the record merge_defaults returns has exactly the keys of
\* defaults.env and of stage.env, each once; a key the stage defines has the
\* stage's value, any other key the defaults' value.
C11_EnvMergePrecedence ==
    m_out.status = "returned" =>
        LET env   == m_out.merged["env"]
            env_d == EnvOf(m_in.defaults)
            env_s == EnvOf(m_in.stage)
        IN  /\ env.kind = "dict"
            /\ Len(env.keys) = Len(env.vals)
            /\ Range(env.keys) = Range(env_d.keys) \cup Range(env_s.keys)
            /\ Cardinality(Range(env.keys)) = Len(env.keys)
            /\ \A k \in Range(env.keys) :
                  EnvValue(env, k) = IF k \in Range(env_s.keys) THEN EnvValue(env_s, k)
                                     ELSE EnvValue(env_d, k)

\* C11 witness: defaults {A:1,B:2} merged with stage {B:3,C:4} gave
\* {A:1,B:3,C:4}.
C11_Witness ==
    /\ m_out.status = "returned"
    /\ EnvOf(m_in.defaults) = DictV(<<"A", "B">>, <<"1", "2">>)
    /\ EnvOf(m_in.stage) = DictV(<<"B", "C">>, <<"3", "4">>)
    /\ m_out.merged["env"] = DictV(<<"A", "B", "C">>, <<"1", "3", "4">>)

\* C12, as claimed: merged against empty defaults a stage record comes back
\* with the keys and values it had.
C12_EmptyDefaultsIdentity ==
    (m_out.status = "returned" /\ m_in.defaults = EmptyMap) => m_out.merged = m_in.stage

\* C12, amended: merged against empty defaults a stage record comes back with
\* the keys and values it had on every field but env; env is always a key of
\* the result, with the stage's env when that is a non-empty mapping and {}
\* when the stage has no env or an empty or None env; the stage record itself
\* is left as it was.
C12_EmptyDefaultsAmended ==
    (m_out.status = "returned" /\ m_in.defaults = EmptyMap) =>
        /\ DOMAIN m_out.merged = (DOMAIN m_in.stage) \cup {"env"}
        /\ \A k \in (DOMAIN m_in.stage) \ {"env"} : m_out.merged[k] = m_in.stage[k]
        /\ m_out.merged["env"] =
              IF "env" \in DOMAIN m_in.stage /\ Truthy(m_in.stage["env"])
              THEN m_in.stage["env"] ELSE EmptyDictV
        /\ m_out.stage = m_in.stage

\* C12 witness: a stage without env merged against empty defaults.
C12_Witness ==
    /\ m_out.status = "returned"
    /\ m_in.defaults = EmptyMap
    /\ "env" \notin DOMAIN m_in.stage
    /\ "repo" \in DOMAIN m_in.stage
    /\ m_out.merged["env"] = EmptyDictV

\* The field names of the documents of the model.
FieldNames == {"id", "repo", "ref", "jobscript", "sites", "env", "wall_seconds"}

\* C20: on every field but env the record merge_defaults returns has the
\* stage's value when the stage has the key, the defaults' value when only the
\* defaults have it, and no such key when neither has it.
C20_ScalarOverride ==
    m_out.status = "returned" =>
        /\ DOMAIN m_out.merged \subseteq FieldNames
        /\ \A k \in FieldNames \ {"env"} :
              /\ k \in DOMAIN m_in.stage => m_out.merged[k] = m_in.stage[k]
              /\ (k \notin DOMAIN m_in.stage /\ k \in DOMAIN m_in.defaults) =>
                    m_out.merged[k] = m_in.defaults[k]
              /\ (k \notin DOMAIN m_in.stage /\ k \notin DOMAIN m_in.defaults) =>
                    k \notin DOMAIN m_out.merged

\* C20 witness: the stage's repo and sites override the defaults', ref comes
\* from the defaults, jobscript is in neither.
C20_Witness ==
    /\ m_out.status = "returned"
    /\ GetN(m_in.stage, "repo") = StrV("org/r2")
    /\ GetN(m_in.defaults, "repo") = StrV("org/repo")
    /\ GetN(m_in.stage, "sites") = ListV(<<"US_FNAL">>)
    /\ GetN(m_in.defaults, "sites") = ListV(<<"UK_RAL", "US_FNAL">>)
    /\ "ref" \notin DOMAIN m_in.stage
    /\ GetN(m_in.defaults, "ref") = StrV("main")
    /\ GetN(m_out.merged, "repo") = StrV("org/r2")
    /\ GetN(m_out.merged, "sites") = ListV(<<"US_FNAL">>)
    /\ GetN(m_out.merged, "ref") = StrV("main")
    /\ "jobscript" \notin DOMAIN m_out.merged

\* C19: no step of a run changes the defaults or a stage record of the parsed
\* document, and the i-th create-stage command is the one built from the i-th
\* stage record and the defaults alone, whatever stages came before it.
C19_InputsImmutable ==
    /\ [][defaults' = defaults /\ stages' = stages]_vars
    /\ [](\A i \in 1..Len(StageCalls) :
            /\ stages.items[i].isdict
            /\ "id" \in DOMAIN stages.items[i].d
            /\ StageCalls[i] =
                  CreateStageCmd(justin_global, wfid,
                                 merge_defaults(stages.items[i].d, defaults), defaults))

\* C19 witness: after a stage with env {B:3,C:4} was merged over the defaults'
\* env {A:1,B:2}, the next stage's command still carries B=2 and no C.
C19_Witness ==
    /\ Len(StageCalls) = 2
    /\ GetN(defaults, "env") = DictV(<<"A", "B">>, <<"1", "2">>)
    /\ GetN(stages.items[1].d, "env") = DictV(<<"B", "C">>, <<"3", "4">>)
    /\ "env" \notin DOMAIN stages.items[2].d
    /\ \E j \in 1..(Len(StageCalls[2]) - 1) :
          StageCalls[2][j] = "--env" /\ StageCalls[2][j + 1] = "B=2"
    /\ ~(\E j \in 1..Len(StageCalls[2]) : StageCalls[2][j] = "C=4")

\* C16: create-workflow is the first call of every run; a create-stage call is
\* issued only after create-workflow succeeded and gave an identifier;
\* submit-workflow only after one successful create-stage call per declared
\* stage; show-stages only after a successful submit-workflow.
C16_PhaseOrdering ==
    /\ calls # <<>> => Subcommand(calls[1]) = "create-workflow"
    /\ \A k \in CallsOf("create-stage") :
          /\ k > 1
          /\ Succeeded(1)
          /\ wfid # ""
    /\ \A k \in CallsOf("submit-workflow") :
          /\ k = Len(stages.items) + 2
          /\ \A j \in 2..(k - 1) : Subcommand(calls[j]) = "create-stage" /\ Succeeded(j)
    /\ \A k \in CallsOf("show-stages") :
          /\ k > 1
          /\ Subcommand(calls[k - 1]) = "submit-workflow"
          /\ Succeeded(k - 1)

\* C16 witness: a real run of a two-stage document that issued all five calls.
C16_Witness ==
    /\ ~args.dry_run
    /\ Len(stages.items) = 2
    /\ Len(calls) = 5
    /\ Subcommand(calls[4]) = "submit-workflow"
    /\ Subcommand(calls[5]) = "show-stages"

\* C17: create-workflow, submit-workflow and show-stages are each issued at
\* most once, the number of create-stage calls is the number of stage
\* positions whose call the loop has issued (one each), and a call that
\* failed is the last call of the run.
C17_NoRetries ==
    /\ Cardinality(CallsOf("create-workflow")) <= 1
    /\ Cardinality(CallsOf("submit-workflow")) <= 1
    /\ Cardinality(CallsOf("show-stages")) <= 1
    /\ Len(StageCalls) <= Len(stages.items)
    /\ (pc = "stages" /\ idx <= Len(stages.items)) => Len(StageCalls) = idx - 1
    /\ (pc = "create_stage" /\ rpc # "entered") => Len(StageCalls) = idx
    /\ \A k \in 1..Len(calls) : Failed(k) => Len(calls) = k

\* C17 witness: a run that ended on a failed call after a successful one.
C17_Witness ==
    /\ pc = "exited"
    /\ Len(calls) = 3
    /\ Succeeded(2)
    /\ Failed(3)
    /\ Len(stages.items) = 2

\* The create-stage flags that take a value.
ValueFlags ==
    {"--workflow-id", "--stage-id", "--jobscript-git", "--wall-seconds", "--rss-mib",
     "--processors", "--env", "--output-pattern-next-stage", "--output-pattern",
     "--output-rse", "--output-rse-expression", "--lifetime-days", "--max-distance",
     "--site", "--classad"}

RECURSIVE WellFormedFlags(_)
\* toks is a sequence of `--gpu` and of `flag value` pairs.
WellFormedFlags(toks) ==
    IF toks = <<>> THEN TRUE
    ELSE IF toks[1] = "--gpu" THEN WellFormedFlags(Tail(toks))
    ELSE IF toks[1] \in ValueFlags /\ Len(toks) >= 2 THEN WellFormedFlags(Tail(Tail(toks)))
    ELSE FALSE

RECURSIVE FlagValues(_, _)
\* The values of the occurrences of flag in the `flag value` pairs of toks.
FlagValues(toks, flag) ==
    IF Len(toks) < 2 THEN <<>>
    ELSE IF toks[1] = flag THEN <<toks[2]>> \o FlagValues(Tail(Tail(toks)), flag)
    ELSE FlagValues(Tail(toks), flag)

\* The merged record of the stage at position i.
MergedAt(i) == merge_defaults(stages.items[i].d, defaults)

\* C13: every create-stage command of a stage whose merged record does not
\* configure dunesw_version holds the adjacent tokens `--env` and
\* `DUNESW_VERSION=v10_17_01d00`, and after the subcommand the command is made
\* of create-stage flags and their values only.
C13_SoftwareVersionDefault ==
    \A i \in 1..Len(StageCalls) :
        LET c == StageCalls[i]
        IN  ~Configured(MergedAt(i), "dunesw_version") =>
                /\ \E j \in 1..(Len(c) - 1) :
                      c[j] = "--env" /\ c[j + 1] = "DUNESW_VERSION=v10_17_01d00"
                /\ WellFormedFlags(SubSeq(c, Len(justin_global) + 2, Len(c)))

\* C14: every create-stage command has --workflow-id, --stage-id and
\* --jobscript-git once each, right after the subcommand and in that order, and
\* the token after --jobscript-git is <repo>/<jobscript>:<ref> of the merged
\* record.
C14_CreateStageShape ==
    \A i \in 1..Len(StageCalls) :
        LET c == StageCalls[i]
            g == Len(justin_global)
        IN  /\ Len(c) >= g + 7
            /\ c[g + 1] = "create-stage"
            /\ c[g + 2] = "--workflow-id"
            /\ c[g + 4] = "--stage-id"
            /\ c[g + 6] = "--jobscript-git"
            /\ \A f \in {"--workflow-id", "--stage-id", "--jobscript-git"} :
                  Cardinality({j \in 1..Len(c) : c[j] = f}) = 1
            /\ stages.items[i].isdict
            /\ c[g + 7] = PyStr(GetN(MergedAt(i), "repo")) \o "/"
                              \o PyStr(GetN(MergedAt(i), "jobscript")) \o ":"
                              \o PyStr(GetN(MergedAt(i), "ref"))

\* C14 witness: a second stage that overrides the repo and ref of the defaults,
\* after a first one that takes them from the defaults.
C14_Witness ==
    /\ Len(StageCalls) = 2
    /\ GetN(defaults, "repo") = StrV("org/repo")
    /\ FlagValues(StageCalls[1], "--jobscript-git") = <<"org/repo/gen.jobscript:main">>
    /\ FlagValues(StageCalls[2], "--jobscript-git") = <<"org/r2/g4.jobscript:v1">>

IllTyped(d) ==
    \/ Configured(d, "env") /\ d["env"].kind # "dict"
    \/ Configured(d, "output_patterns") /\ d["output_patterns"].kind # "list"
    \/ Configured(d, "sites") /\ d["sites"].kind # "list"

\* C18: once the loop body has run on a stage with an ill-typed collection
\* field, the run has ended in an error whose message names the stage id, and
\* no create-stage call was issued for that stage.
C18_CollectionTypeValidation ==
    \A i \in 1..Len(stages.items) :
        (/\ stages.items[i].isdict
         /\ "id" \in DOMAIN stages.items[i].d
         /\ IllTyped(stages.items[i].d)
         /\ idx = i
         /\ pc # "stages")
            => /\ pc = "exited"
               /\ exit_code # 0
               /\ Len(StageCalls) < i
               /\ Len(err) >= 2
               /\ err[1] = "Stage "
               /\ err[2] = as_str(stages.items[i].d["id"])

\* The subcommands main issues.
Subcommands == {"create-workflow", "create-stage", "submit-workflow", "show-stages"}

\* The prefix the command line selects: justin, then -v, --instance <name>,
\* --url <url>, each when given.
SelectedPrefix ==
    <<"justin">>
        \o (IF args.verbose THEN <<"-v">> ELSE <<>>)
        \o (IF args.instance.kind = "str" /\ args.instance.s # ""
            THEN <<"--instance", args.instance.s>> ELSE <<>>)
        \o (IF args.url.kind = "str" /\ args.url.s # "" THEN <<"--url", args.url.s>> ELSE <<>>)

\* C21: every call of the run starts with the selected prefix, the token after
\* the prefix is its subcommand, and no other subcommand token occurs in it
\* (nothing of an earlier call is carried along).
C21_StableGlobalPrefix ==
    \A k \in 1..Len(calls) :
        LET c == calls[k]
            g == Len(SelectedPrefix)
        IN  /\ Len(c) > g
            /\ SubSeq(c, 1, g) = SelectedPrefix
            /\ c[g + 1] \in Subcommands
            /\ Cardinality({j \in 1..Len(c) : c[j] \in Subcommands}) = 1
            /\ \A j \in 1..Len(calls) : SubSeq(calls[j], 1, g) = SubSeq(c, 1, g)

\* C21 witness: a run with all three global flags that issued its five calls.
C21_Witness ==
    /\ args.verbose
    /\ args.instance = StrV("dune")
    /\ args.url = StrV("https://justin.example/api")
    /\ Len(calls) = 5
    /\ Len(SelectedPrefix) = 6
    /\ calls[5][7] = "show-stages"

\* The lines of standard output that are echoed command lines: all but the
\* two lines main prints about the workflow identifier.
Echoes ==
    SelectSeq(printed, LAMBDA l : l \notin {"WFID=" \o wfid, "Submitted WFID=" \o wfid})

\* C22: the echoed lines are, in order, the command lines of the invocations
\* of run_cmd; under --dry-run no process is spawned; in a real run every
\* process spawned is the command of the echo of the same rank, and there is
\* one more echo than processes exactly while run_cmd is between its print
\* and its subprocess.run.
C22_EchoBeforeExecution ==
    /\ Len(Echoes) = Len(calls)
    /\ \A k \in 1..Len(Echoes) :
          k <= Len(calls) => Echoes[k] = Printable(calls[k], args.with_dune_setup)
    /\ IF args.dry_run
       THEN procs = <<>>
       ELSE /\ Len(procs) = (IF rpc = "echoed" THEN Len(Echoes) - 1 ELSE Len(Echoes))
            /\ \A k \in 1..Len(procs) :
                  k <= Len(calls) => procs[k] = build_justin_cmd(calls[k], args.with_dune_setup)

\* C22 witness: a real run under the bootstrap wrapper whose fourth command is
\* echoed and not yet spawned.
C22_Witness ==
    /\ ~args.dry_run
    /\ args.with_dune_setup
    /\ rpc = "echoed"
    /\ Len(Echoes) = 4
    /\ Len(procs) = 3
    /\ procs[3][1] = "bash"

\* C22 witness of the dry run: four commands echoed, none spawned.
C22_WitnessDryRun ==
    /\ args.dry_run
    /\ Len(Echoes) = 4
    /\ procs = <<>>
    /\ pc = "exited"

\* The resource fields and their flags.
ResourceFlags ==
    {<<"wall_seconds", "--wall-seconds">>, <<"rss_mib", "--rss-mib">>,
     <<"processors", "--processors">>}

\* C23: in every create-stage command each of --wall-seconds, --rss-mib and
\* --processors occurs once, followed by the value of its field, when the field
\* is in the merged record, and does not occur otherwise; --gpu occurs (once)
\* exactly when the merged gpu field is true.
C23_ResourceFlags ==
    \A i \in 1..Len(StageCalls) :
        LET c == StageCalls[i]
            m == MergedAt(i)
        IN  /\ \A kf \in ResourceFlags :
                  /\ Cardinality({j \in 1..Len(c) : c[j] = kf[2]})
                        = (IF kf[1] \in DOMAIN m THEN 1 ELSE 0)
                  /\ kf[1] \in DOMAIN m => FlagValues(c, kf[2]) = <<as_str(m[kf[1]])>>
            /\ Cardinality({j \in 1..Len(c) : c[j] = "--gpu"})
                  = (IF GetN(m, "gpu") = BoolV(TRUE) THEN 1 ELSE 0)

\* C23 witness: a stage that turns off the gpu of the defaults, takes their
\* wall_seconds and gives no rss_mib.
C23_Witness ==
    /\ Len(StageCalls) = 1
    /\ GetN(defaults, "gpu") = BoolV(TRUE)
    /\ GetN(stages.items[1].d, "gpu") = BoolV(FALSE)
    /\ "wall_seconds" \notin DOMAIN stages.items[1].d
    /\ "rss_mib" \notin DOMAIN stages.items[1].d
    /\ FlagValues(StageCalls[1], "--wall-seconds") = <<"7200">>
    /\ FlagValues(StageCalls[1], "--processors") = <<"2">>

\* C24: no two create-stage calls of a run carry the same value after
\* --stage-id.
C24_StageIdUnique ==
    \A i, j \in 1..Len(StageCalls) :
        i < j => FlagValues(StageCalls[i], "--stage-id") # FlagValues(StageCalls[j], "--stage-id")

\* C25: a run never issues more than N + 3 external calls, N the number of
\* declared stages, and it ends: main reaches a terminal state, with exit
\* status 0 or one of the abort statuses, and stays there.
C25_Termination ==
    /\ [](Len(calls) <= Len(stages.items) + 3)
    /\ <>[](pc = "exited" /\ rpc \in {"idle", "returned"} /\ exit_code \in 0..4)

\* C25 witness: a run of a two-stage document that ended after N + 3 calls.
C25_Witness ==
    /\ pc = "exited"
    /\ exit_code = 0
    /\ Len(stages.items) = 2
    /\ Len(calls) = Len(stages.items) + 3

\* C26: fetch_job never makes more than `retries` requests, every request
\* but the first follows a pass that raised, and a pass that fetched and
\* parsed its page without error is the last one.
C26_RetryBudget ==
    /\ Len(gets) <= retries
    /\ \A k \in 1..Len(gets) :
          ~gets[k].raised => k = Len(gets)

\* create-workflow exited 0 and the first whitespace-separated token of its
\* output is all digits.
ScriptIdentifierGiven ==
    /\ results # <<>>
    /\ results[1].returncode = 0
    /\ LStrip(results[1].stdout) # <<>>
    /\ LStrip(results[1].stdout)[1] \in DigitStrings

\* C27: once the script has ended, if create-workflow gave an identifier and
\* every call exited 0, the calls were create-workflow, create-stage for the
\* stage ids 1, 2, 3, 4 with that identifier, submit-workflow and show-stages,
\* and the exit status is 0; if the identifier could not be parsed or a call
\* before show-stages failed, that call was the last one and the exit status
\* is 2.
C27_MultistepScript ==
    pc = "exited" =>
        IF ScriptIdentifierGiven /\ \A k \in 1..Len(results) : results[k].returncode = 0
        THEN /\ exit_code = 0
             /\ Len(calls) = 7
             /\ \A n \in 1..4 :
                   /\ Subcommand(calls[n + 1]) = "create-stage"
                   /\ FlagValues(calls[n + 1], "--stage-id") = <<ToString(n)>>
                   /\ FlagValues(calls[n + 1], "--workflow-id")
                         = <<LStrip(results[1].stdout)[1]>>
             /\ Subcommand(calls[6]) = "submit-workflow"
             /\ Subcommand(calls[7]) = "show-stages"
        ELSE /\ exit_code = 2
             /\ Len(calls) = Len(results)
             /\ \A k \in 1..(Len(results) - 1) : results[k].returncode = 0

====
